---- MODULE Spec2Model ----
(***************************************************************************)
(* Workflow progression engine of tp-management-backend:                   *)
(* WorkflowService (getProjectWorkflow, updateWorkflowStep,                *)
(* validateStepCompletion, updateProjectStatusIfNeeded,                    *)
(* getWorkflowProgress) over the project_workflow and projects tables.     *)
(***************************************************************************)
EXTENDS Integers, Sequences, FiniteSets, TLC

\* ------------------------------------------------------------------ bounds
\* last calendar day the clock reaches (DATE columns hold whole days)
MaxDay == 1
\* number of updateWorkflowStep requests served in one behaviour
MaxUpdates == 2
\* number of requests in flight at the same time
MaxRequests == 2
\* the plans are followed up to day LastDay, in leaps of DaysBetween days
LastDay == 8
DaysBetween == 3
\* number of status changes served in one behaviour of SpecCorrections
MaxCorrections == 3
\* number of tasks created in one behaviour
MaxTasks == 2
\* number of activity_logs rows written about tasks in one behaviour
MaxLog == 4

\* ------------------------------------------------------------ catalog data
\* workflow_templates rows as seeded: stepSequence = position in the list
TemplateNames(deliverableType) ==
    CASE deliverableType = "LOCAL_FILE" ->
            <<"Project Intake", "Data Gathering", "Functional Analysis">>
      [] deliverableType = "BENCHMARK_ANALYSIS" -> <<"Project Scoping", "Search Strategy">>
      [] OTHER -> <<>>

\* prisma.workflowTemplate.findMany({where: {deliverableType}, orderBy: asc})
FindTemplates(deliverableType) ==
    [i \in 1..Len(TemplateNames(deliverableType)) |->
        [stepSequence |-> i, stepName |-> TemplateNames(deliverableType)[i]]]

\* the projects table: id -> deliverableType (rows created by the seed)
ProjectIds == {"P1", "P2", "P3"}
DeliverableTypeOf(p) ==
    CASE p = "P1" -> "LOCAL_FILE"
      [] p = "P2" -> "BENCHMARK_ANALYSIS"
      [] OTHER -> "TP_POLICY"
\* an id no projects row carries
MissingProject == "PX"
\* an id no project_workflow row carries
MissingStep == 0

\* ------------------------------------------------------------------ values
StepStatuses == {"not_started", "in_progress", "completed", "blocked"}
Null == <<>>
NoUser == "none"
NoNotes == ""

\* request bodies of PUT /projects/:id/workflow/:stepId; an absent field is {}
PctInputs == {-50, 50, 100}
NoPatch ==
    [status |-> {}, assignedTo |-> {}, completionPercentage |-> {},
     notes |-> {}, startDate |-> {}, dueDate |-> {},
     stepSequence |-> {}, stepName |-> {}, completionDate |-> {}]
\* the fields besides status a body carries
FieldPatches(b) ==
    {[b EXCEPT !.assignedTo = {"u1"}, !.notes = {"n1"}, !.dueDate = {MaxDay}],
     [b EXCEPT !.completionPercentage = {50}]}
Patches ==
    {[NoPatch EXCEPT !.status = {s}] : s \in StepStatuses}
    \cup FieldPatches(NoPatch)
    \cup FieldPatches([NoPatch EXCEPT !.status = {"completed"}])
    \cup {[NoPatch EXCEPT !.completionPercentage = {n}] : n \in PctInputs}
    \cup {[NoPatch EXCEPT !.startDate = {0}],
          [NoPatch EXCEPT !.status = {"in_progress"}, !.startDate = {0}]}

VARIABLES
    projectStatus,    \* projects.status, per project id
    projectWorkflow,  \* project_workflow rows in insertion order; id = index
    now,              \* the current day, what new Date() is stored as
    nUpdates,         \* updateWorkflowStep requests served so far
    last,             \* the last request served alone, and its response
    requests,         \* the requests in flight: position and response
    tasks,            \* the rows of table tasks
    activityLog,      \* the rows of table activity_logs about tasks, oldest first
    taskSeq           \* the number of task ids issued so far

\* the tables of TaskService, which no workflow or project handler touches
taskVars == <<tasks, activityLog, taskSeq>>

vars == <<projectStatus, projectWorkflow, now, nUpdates, last, requests,
          tasks, activityLog, taskSeq>>

\* ------------------------------------------------------- table operations
Opt(field, old) == IF field = {} THEN old ELSE CHOOSE v \in field : TRUE
OptDate(field, old) == IF field = {} THEN old ELSE <<CHOOSE v \in field : TRUE>>

\* ids of the rows of one project (findMany({where: {projectId}}))
StepsOf(wf, p) == {i \in 1..Len(wf) : wf[i].projectId = p}

\* orderBy: {stepSequence: 'asc'} over a set of row ids
RECURSIVE OrderBySequence(_, _)
OrderBySequence(wf, ids) ==
    IF ids = {} THEN <<>>
    ELSE LET first == CHOOSE i \in ids : \A j \in ids :
                          \/ wf[i].stepSequence < wf[j].stepSequence
                          \/ wf[i].stepSequence = wf[j].stepSequence /\ i <= j
         IN  <<first>> \o OrderBySequence(wf, ids \ {first})

\* findMany({where: {projectId}, orderBy: {stepSequence: 'asc'}}): the rows
FindWorkflow(wf, p) ==
    LET ids == OrderBySequence(wf, StepsOf(wf, p))
    IN  [k \in 1..Len(ids) |-> wf[ids[k]]]

\* mutant: the existing rows are not looked at
NoWorkflowYet_Always(wf, p) == TRUE

\* if (workflow.length === 0): the project has no step instance yet
NoWorkflowYet(wf, p) == StepsOf(wf, p) = {}

\* mutant: the last template is left out
NewSteps_DropLast(wf, p, templates) ==
    [k \in 1..(Len(templates) - 1) |->
        [id |-> Len(wf) + k,
         projectId |-> p,
         stepSequence |-> templates[k].stepSequence,
         stepName |-> templates[k].stepName,
         status |-> "not_started",
         completionPercentage |-> 0,
         assignedTo |-> NoUser,
         startDate |-> Null,
         dueDate |-> Null,
         completionDate |-> Null,
         notes |-> NoNotes]]

\* the rows createMany builds from the templates; the unset columns take
\* their schema defaults (NULL, status not_started, completion_percentage 0)
NewSteps(wf, p, templates) ==
    [k \in 1..Len(templates) |->
        [id |-> Len(wf) + k,
         projectId |-> p,
         stepSequence |-> templates[k].stepSequence,
         stepName |-> templates[k].stepName,
         status |-> "not_started",
         completionPercentage |-> 0,
         assignedTo |-> NoUser,
         startDate |-> Null,
         dueDate |-> Null,
         completionDate |-> Null,
         notes |-> NoNotes]]

\* mutant: the table has no unique index
UniqueOk_NoIndex(wf, rows) == TRUE

\* unique index project_workflow(project_id, step_sequence): may rows be
\* inserted into wf?
UniqueOk(wf, rows) ==
    /\ \A k \in 1..Len(rows) : \A i \in 1..Len(wf) :
          ~(wf[i].projectId = rows[k].projectId
            /\ wf[i].stepSequence = rows[k].stepSequence)
    /\ \A k, l \in 1..Len(rows) :
          (rows[k].projectId = rows[l].projectId
           /\ rows[k].stepSequence = rows[l].stepSequence) => k = l

\* the unique index over a whole table
IndexHolds(wf) ==
    \A i, j \in 1..Len(wf) :
        (wf[i].projectId = wf[j].projectId
         /\ wf[i].stepSequence = wf[j].stepSequence) => i = j

\* prisma.projectWorkflow.update({where: {id}, data}): undefined fields of
\* data leave the column as it is, every other field of data is written
ApplyData(row, data) ==
    [row EXCEPT
        !.status = Opt(data.status, @),
        !.assignedTo = Opt(data.assignedTo, @),
        !.completionPercentage = Opt(data.completionPercentage, @),
        !.notes = Opt(data.notes, @),
        !.startDate = OptDate(data.startDate, @),
        !.dueDate = OptDate(data.dueDate, @),
        !.stepSequence = Opt(data.stepSequence, @),
        !.stepName = Opt(data.stepName, @),
        !.completionDate = Opt(data.completionDate, @)]

\* ------------------------------------------------- validateStepCompletion
\* mutant: the filter reads stepSequence gt instead of lt
IncompleteSteps_LaterSteps(wf, stepId) ==
    {i \in StepsOf(wf, wf[stepId].projectId) :
        /\ wf[i].stepSequence > wf[stepId].stepSequence
        /\ wf[i].status # "completed"}

\* mutant: the previous steps are not read
IncompleteSteps_NotRead(wf, stepId) == {}

\* the previous steps that are not completed
IncompleteSteps(wf, stepId) ==
    {i \in StepsOf(wf, wf[stepId].projectId) :
        /\ wf[i].stepSequence < wf[stepId].stepSequence
        /\ wf[i].status # "completed"}

\* mutant: the message names the first incomplete step only
IncompleteNames_FirstOnly(wf, stepId) ==
    {wf[i].stepName : i \in {j \in IncompleteSteps(wf, stepId) :
        \A k \in IncompleteSteps(wf, stepId) :
            wf[j].stepSequence <= wf[k].stepSequence}}

\* the step names the ValidationError message lists
IncompleteNames(wf, stepId) == {wf[i].stepName : i \in IncompleteSteps(wf, stepId)}

\* -------------------------------------------- updateProjectStatusIfNeeded
RECURSIVE SumPct(_, _)
SumPct(wf, ids) ==
    IF ids = {} THEN 0
    ELSE LET i == CHOOSE j \in ids : TRUE
         IN  wf[i].completionPercentage + SumPct(wf, ids \ {i})

\* mutant: the band boundary compares with > instead of >=
AvgAtLeast_Strict(wf, ids, n) == SumPct(wf, ids) > n * Cardinality(ids)

\* avgCompletion >= n, with avgCompletion = totalPercentage / workflow.length
AvgAtLeast(wf, ids, n) == SumPct(wf, ids) >= n * Cardinality(ids)
AvgPositive(wf, ids) == SumPct(wf, ids) > 0

\* mutant: no allCompleted branch, the bands alone decide
ProjectedStatus_BandsOnly(wf, p) ==
    LET ids == StepsOf(wf, p) IN
    IF AvgAtLeast(wf, ids, 75) THEN "FINALIZATION"
    ELSE IF AvgAtLeast(wf, ids, 50) THEN "INTERNAL_REVIEW"
    ELSE IF AvgAtLeast(wf, ids, 25) THEN "DRAFTING"
    ELSE IF AvgPositive(wf, ids) THEN "ANALYSIS"
    ELSE "PLANNING"

\* the status the projector writes for project p
ProjectedStatus(wf, p) ==
    LET ids == StepsOf(wf, p) IN
    IF \A i \in ids : wf[i].status = "completed" THEN "DELIVERED"
    ELSE IF AvgAtLeast(wf, ids, 75) THEN "FINALIZATION"
    ELSE IF AvgAtLeast(wf, ids, 50) THEN "INTERNAL_REVIEW"
    ELSE IF AvgAtLeast(wf, ids, 25) THEN "DRAFTING"
    ELSE IF AvgPositive(wf, ids) THEN "ANALYSIS"
    ELSE "PLANNING"

\* mutant: the projector writes only when every step is completed
UpdateProjectStatusIfNeeded_AllOrNothing(ps, wf, p) ==
    IF \A i \in StepsOf(wf, p) : wf[i].status = "completed"
    THEN [ps EXCEPT ![p] = "DELIVERED"]
    ELSE ps

\* mutant: the projector runs for every project that has steps
UpdateProjectStatusIfNeeded_EveryProject(ps, wf, p) ==
    [q \in DOMAIN ps |->
        IF StepsOf(wf, q) # {} THEN ProjectedStatus(wf, q) ELSE ps[q]]

\* project.update({where: {id: projectId}, data: {status: newStatus}})
UpdateProjectStatusIfNeeded(ps, wf, p) ==
    [ps EXCEPT ![p] = ProjectedStatus(wf, p)]

\* ---------------------------------------------------- getWorkflowProgress
CountStatus(wf, ids, s) == Cardinality({i \in ids : wf[i].status = s})

\* mutant: Math.floor in place of Math.round
PercentComplete_Floor(completedSteps, totalSteps) ==
    IF totalSteps > 0
    THEN (100 * completedSteps) \div totalSteps
    ELSE 0

\* Math.round((completedSteps / totalSteps) * 100)
PercentComplete(completedSteps, totalSteps) ==
    IF totalSteps > 0
    THEN (200 * completedSteps + totalSteps) \div (2 * totalSteps)
    ELSE 0

\* mutant: the difference is not floored at 0
PlannedDays_Signed(row) ==
    IF row.startDate = Null \/ row.dueDate = Null THEN 0
    ELSE row.dueDate[1] - row.startDate[1]

\* Math.max(0, Math.ceil((dueDate - startDate) / one day)); 0 without dates
PlannedDays(row) ==
    IF row.startDate = Null \/ row.dueDate = Null THEN 0
    ELSE IF row.dueDate[1] > row.startDate[1]
         THEN row.dueDate[1] - row.startDate[1] ELSE 0

RECURSIVE SumPlanned(_, _)
SumPlanned(wf, ids) ==
    IF ids = {} THEN 0
    ELSE LET i == CHOOSE j \in ids : TRUE
         IN  PlannedDays(wf[i]) + SumPlanned(wf, ids \ {i})

NoProgress ==
    [totalSteps |-> 0, completedSteps |-> 0, inProgressSteps |-> 0,
     notStartedSteps |-> 0, blockedSteps |-> 0, percentComplete |-> 0,
     estimatedCompletionDate |-> Null, isOnTrack |-> TRUE]

\* mutant: findLast in place of find, the estimate follows the last
\* in_progress step
WorkflowProgress_LastInProgress(wf, p, day) ==
    LET ids == StepsOf(wf, p)
        ordered == FindWorkflow(wf, p)
        inProgress == {k \in 1..Len(ordered) : ordered[k].status = "in_progress"}
        step == ordered[CHOOSE k \in inProgress : \A l \in inProgress : k >= l]
        estimates == inProgress # {} /\ step.startDate # Null /\ step.dueDate # Null
        later == {i \in ids : wf[i].stepSequence > step.stepSequence}
    IN  [totalSteps |-> Cardinality(ids),
         completedSteps |-> CountStatus(wf, ids, "completed"),
         inProgressSteps |-> CountStatus(wf, ids, "in_progress"),
         notStartedSteps |-> CountStatus(wf, ids, "not_started"),
         blockedSteps |-> CountStatus(wf, ids, "blocked"),
         percentComplete |->
             PercentComplete(CountStatus(wf, ids, "completed"), Cardinality(ids)),
         estimatedCompletionDate |->
             IF estimates
             THEN <<step.startDate[1] + PlannedDays(step) + SumPlanned(wf, later)>>
             ELSE Null,
         isOnTrack |->
             IF estimates THEN day - step.startDate[1] <= PlannedDays(step)
             ELSE TRUE]

\* mutant: the estimate follows the first step that has a start date,
\* whatever its status
WorkflowProgress_AnyStarted(wf, p, day) ==
    LET ids == StepsOf(wf, p)
        ordered == FindWorkflow(wf, p)
        started == {k \in 1..Len(ordered) : ordered[k].startDate # Null}
        step == ordered[CHOOSE k \in started : \A l \in started : k <= l]
        estimates == started # {} /\ step.dueDate # Null
        later == {i \in ids : wf[i].stepSequence > step.stepSequence}
    IN  [totalSteps |-> Cardinality(ids),
         completedSteps |-> CountStatus(wf, ids, "completed"),
         inProgressSteps |-> CountStatus(wf, ids, "in_progress"),
         notStartedSteps |-> CountStatus(wf, ids, "not_started"),
         blockedSteps |-> CountStatus(wf, ids, "blocked"),
         percentComplete |->
             PercentComplete(CountStatus(wf, ids, "completed"), Cardinality(ids)),
         estimatedCompletionDate |->
             IF estimates
             THEN <<step.startDate[1] + PlannedDays(step) + SumPlanned(wf, later)>>
             ELSE Null,
         isOnTrack |->
             IF estimates THEN day - step.startDate[1] <= PlannedDays(step)
             ELSE TRUE]

\* the summary returned for a project that has steps
WorkflowProgress(wf, p, day) ==
    LET ids == StepsOf(wf, p)
        ordered == FindWorkflow(wf, p)
        inProgress == {k \in 1..Len(ordered) : ordered[k].status = "in_progress"}
        \* workflow.find(...): the first in_progress step in sequence order
        step == ordered[CHOOSE k \in inProgress : \A l \in inProgress : k <= l]
        estimates == inProgress # {} /\ step.startDate # Null /\ step.dueDate # Null
        later == {i \in ids : wf[i].stepSequence > step.stepSequence}
    IN  [totalSteps |-> Cardinality(ids),
         completedSteps |-> CountStatus(wf, ids, "completed"),
         inProgressSteps |-> CountStatus(wf, ids, "in_progress"),
         notStartedSteps |-> CountStatus(wf, ids, "not_started"),
         blockedSteps |-> CountStatus(wf, ids, "blocked"),
         percentComplete |->
             PercentComplete(CountStatus(wf, ids, "completed"), Cardinality(ids)),
         estimatedCompletionDate |->
             IF estimates
             THEN <<step.startDate[1] + PlannedDays(step) + SumPlanned(wf, later)>>
             ELSE Null,
         isOnTrack |->
             IF estimates THEN day - step.startDate[1] <= PlannedDays(step)
             ELSE TRUE]

\* ------------------------------------------------------------- responses
Response(op, p, stepId, data, outcome, names, ret, progress) ==
    [op |-> op, projectId |-> p, stepId |-> stepId, data |-> data,
     outcome |-> outcome, names |-> names, ret |-> ret, progress |-> progress,
     day |-> now]

\* a request handler between two awaits
Requests == 1..MaxRequests
Idle == [pc |-> "idle", projectId |-> MissingProject, outcome |-> "none", ret |-> <<>>]

Init ==
    /\ projectStatus = [p \in ProjectIds |-> "NOT_STARTED"]
    /\ projectWorkflow = <<>>
    /\ now = 0
    /\ nUpdates = 0
    /\ last = Response("none", MissingProject, MissingStep, NoPatch, "ok", {},
                       <<>>, NoProgress)
    /\ requests = [r \in Requests |-> Idle]
    /\ tasks = {}
    /\ activityLog = <<>>
    /\ taskSeq = 0

\* -------------------------------------------------- sequential operations
\* GET /projects/:id/workflow, served alone
GetProjectWorkflow(p) ==
    LET templates == FindTemplates(DeliverableTypeOf(p))
        rows == NewSteps(projectWorkflow, p, templates)
    IN
    /\ UNCHANGED <<projectStatus, now, nUpdates, requests>>
    /\ IF p \notin ProjectIds THEN
          /\ last' = Response("getProjectWorkflow", p, MissingStep, NoPatch,
                              "NotFound", {}, <<>>, NoProgress)
          /\ UNCHANGED projectWorkflow
       ELSE IF ~NoWorkflowYet(projectWorkflow, p) THEN
          /\ last' = Response("getProjectWorkflow", p, MissingStep, NoPatch,
                              "ok", {}, FindWorkflow(projectWorkflow, p), NoProgress)
          /\ UNCHANGED projectWorkflow
       ELSE IF Len(templates) = 0 THEN
          /\ last' = Response("getProjectWorkflow", p, MissingStep, NoPatch,
                              "NotFound", {}, <<>>, NoProgress)
          /\ UNCHANGED projectWorkflow
       ELSE IF ~UniqueOk(projectWorkflow, rows) THEN
          /\ last' = Response("getProjectWorkflow", p, MissingStep, NoPatch,
                              "P2002", {}, <<>>, NoProgress)
          /\ UNCHANGED projectWorkflow
       ELSE
          /\ projectWorkflow' = projectWorkflow \o rows
          /\ last' = Response("getProjectWorkflow", p, MissingStep, NoPatch,
                              "ok", {}, FindWorkflow(projectWorkflow', p), NoProgress)

\* mutant: the completion branch does not force completionPercentage
UpdatedStep_KeepsPct(step, data, day) ==
    IF data.status = {"completed"}
    THEN [ApplyData(step, data) EXCEPT !.completionDate = <<day>>]
    ELSE IF data.status = {"in_progress"} /\ step.startDate = Null
    THEN [ApplyData(step, data) EXCEPT !.startDate = <<day>>]
    ELSE ApplyData(step, data)

\* mutant: completed is final, a later body cannot change the status
UpdatedStep_CompletedIsFinal(step, data, day) ==
    IF data.status = {"completed"}
    THEN [ApplyData(step, [data EXCEPT !.completionPercentage = {100}])
             EXCEPT !.completionDate = <<day>>]
    ELSE IF data.status = {"in_progress"} /\ step.startDate = Null
    THEN [ApplyData(step, data) EXCEPT
             !.startDate = <<day>>,
             !.status = IF step.status = "completed" THEN "completed" ELSE @]
    ELSE [ApplyData(step, data) EXCEPT
             !.status = IF step.status = "completed" THEN "completed" ELSE @]

\* mutant: an update that does not complete the step resets completionDate
UpdatedStep_ClearsCompletion(step, data, day) ==
    IF data.status = {"completed"}
    THEN [ApplyData(step, [data EXCEPT !.completionPercentage = {100}])
             EXCEPT !.completionDate = <<day>>]
    ELSE IF data.status = {"in_progress"} /\ step.startDate = Null
    THEN [ApplyData(step, data) EXCEPT !.startDate = <<day>>,
                                       !.completionDate = Null]
    ELSE [ApplyData(step, data) EXCEPT !.completionDate = Null]

\* mutant: the in_progress branch does not test !step.startDate
UpdatedStep_AlwaysStamps(step, data, day) ==
    IF data.status = {"completed"}
    THEN [ApplyData(step, [data EXCEPT !.completionPercentage = {100}])
             EXCEPT !.completionDate = <<day>>]
    ELSE IF data.status = {"in_progress"}
    THEN [ApplyData(step, data) EXCEPT !.startDate = <<day>>]
    ELSE ApplyData(step, data)

\* the row updateWorkflowStep writes for an existing step
UpdatedStep(step, data, day) ==
    IF data.status = {"completed"}
    THEN [ApplyData(step, [data EXCEPT !.completionPercentage = {100}])
             EXCEPT !.completionDate = <<day>>]
    ELSE IF data.status = {"in_progress"} /\ step.startDate = Null
    THEN [ApplyData(step, data) EXCEPT !.startDate = <<day>>]
    ELSE ApplyData(step, data)

\* updateWorkflowStep(stepId, data) run from its first query to its return
ServeUpdate(stepId, data) ==
    /\ UNCHANGED <<now, requests>>
    /\ IF stepId \notin 1..Len(projectWorkflow) THEN
          /\ last' = Response("updateWorkflowStep", MissingProject, stepId, data,
                              "NotFound", {}, <<>>, NoProgress)
          /\ UNCHANGED <<projectWorkflow, projectStatus>>
       ELSE LET step == projectWorkflow[stepId]
                p == step.projectId
            IN
            IF data.status = {"completed"}
               /\ IncompleteSteps(projectWorkflow, stepId) # {} THEN
               /\ last' = Response("updateWorkflowStep", p, stepId, data,
                                   "ValidationError",
                                   IncompleteNames(projectWorkflow, stepId),
                                   <<>>, NoProgress)
               /\ UNCHANGED <<projectWorkflow, projectStatus>>
            ELSE IF ~IndexHolds([projectWorkflow EXCEPT
                                    ![stepId] = UpdatedStep(step, data, now)]) THEN
               /\ last' = Response("updateWorkflowStep", p, stepId, data, "P2002",
                                   {}, <<>>, NoProgress)
               /\ UNCHANGED <<projectWorkflow, projectStatus>>
            ELSE
               /\ projectWorkflow' =
                     [projectWorkflow EXCEPT ![stepId] = UpdatedStep(step, data, now)]
               /\ projectStatus' =
                     IF data.status = {"completed"}
                     THEN UpdateProjectStatusIfNeeded(projectStatus, projectWorkflow', p)
                     ELSE projectStatus
               /\ last' = Response("updateWorkflowStep", p, stepId, data, "ok", {},
                                   <<projectWorkflow'[stepId]>>, NoProgress)

\* PUT /projects/:id/workflow/:stepId, served alone
UpdateWorkflowStep(stepId, data) ==
    /\ nUpdates < MaxUpdates
    /\ nUpdates' = nUpdates + 1
    /\ ServeUpdate(stepId, data)

\* mutant: without the length test a project without steps gets a summary
\* of zeros
GetWorkflowProgress_Zeros(p) ==
    /\ UNCHANGED <<projectStatus, projectWorkflow, now, nUpdates, requests>>
    /\ last' = Response("getWorkflowProgress", p, MissingStep, NoPatch, "ok", {},
                        <<>>, IF StepsOf(projectWorkflow, p) = {} THEN NoProgress
                              ELSE WorkflowProgress(projectWorkflow, p, now))

\* GET /projects/:id/workflow/progress
GetWorkflowProgress(p) ==
    /\ UNCHANGED <<projectStatus, projectWorkflow, now, nUpdates, requests>>
    /\ IF StepsOf(projectWorkflow, p) = {}
       THEN last' = Response("getWorkflowProgress", p, MissingStep, NoPatch,
                             "NotFound", {}, <<>>, NoProgress)
       ELSE last' = Response("getWorkflowProgress", p, MissingStep, NoPatch,
                             "ok", {}, <<>>, WorkflowProgress(projectWorkflow, p, now))

\* a day passes
Tick ==
    /\ now < MaxDay
    /\ now' = now + 1
    /\ UNCHANGED <<projectStatus, projectWorkflow, nUpdates, last, requests>>

Next ==
    \/ \E p \in ProjectIds \cup {MissingProject} : GetProjectWorkflow(p)
          /\ UNCHANGED taskVars
    \/ \E stepId \in 1..Len(projectWorkflow) :
          \E data \in Patches : UpdateWorkflowStep(stepId, data)
          /\ UNCHANGED taskVars
    \/ UpdateWorkflowStep(MissingStep, [NoPatch EXCEPT !.status = {"completed"}])
          /\ UNCHANGED taskVars
    \/ \E p \in ProjectIds : GetWorkflowProgress(p)
          /\ UNCHANGED taskVars
    \/ Tick
          /\ UNCHANGED taskVars

Spec == Init /\ [][Next]_vars

\* ------------------------------------------ the estimate of getWorkflowProgress
\* bodies that start steps and plan them: day 5 and day 8 as dates
DatePatches ==
    {[NoPatch EXCEPT !.status = {"in_progress"}, !.dueDate = {5}],
     [NoPatch EXCEPT !.status = {"in_progress"}],
     [NoPatch EXCEPT !.startDate = {5}, !.dueDate = {8}],
     [NoPatch EXCEPT !.startDate = {8}, !.dueDate = {5}],
     [NoPatch EXCEPT !.startDate = {5}],
     [NoPatch EXCEPT !.status = {"completed"}]}

\* the project whose plan is followed
PlannedProject == "P1"

\* the project that several callers work on
SharedProject == "P2"

\* several days pass between two requests
Elapse ==
    /\ now + DaysBetween <= LastDay
    /\ now' = now + DaysBetween
    /\ UNCHANGED <<projectStatus, projectWorkflow, nUpdates, last, requests>>

NextDates ==
    \/ GetProjectWorkflow(PlannedProject)
          /\ UNCHANGED taskVars
    \/ \E stepId \in 1..Len(projectWorkflow) :
          \E data \in DatePatches : UpdateWorkflowStep(stepId, data)
          /\ UNCHANGED taskVars
    \/ GetWorkflowProgress(PlannedProject)
          /\ UNCHANGED taskVars
    \/ Elapse
          /\ UNCHANGED taskVars

SpecDates == Init /\ [][NextDates]_vars

\* ------------------------------------------------- status corrections
\* bodies that carry a status and nothing else
StatusPatches == {[NoPatch EXCEPT !.status = {st}] : st \in StepStatuses}

\* a PUT with such a body, served alone; up to MaxCorrections of them
CorrectStep(stepId, data) ==
    /\ nUpdates < MaxCorrections
    /\ nUpdates' = nUpdates + 1
    /\ ServeUpdate(stepId, data)

NextCorrections ==
    \/ GetProjectWorkflow(PlannedProject)
          /\ UNCHANGED taskVars
    \/ \E stepId \in 1..Len(projectWorkflow) :
          \E data \in StatusPatches : CorrectStep(stepId, data)
          /\ UNCHANGED taskVars

SpecCorrections == Init /\ [][NextCorrections]_vars

\* --------------------------------------------------- ProjectService
\* the statuses a caller sets by hand in this model
ManualStatuses == {"ON_HOLD", "ARCHIVED"}

\* projectService.deleteProject: a soft delete
DeleteProject(p) ==
    /\ UNCHANGED <<projectWorkflow, now, nUpdates, requests>>
    /\ IF p \notin ProjectIds THEN
          /\ last' = Response("deleteProject", p, MissingStep, NoPatch, "NotFound",
                              {}, <<>>, NoProgress)
          /\ UNCHANGED projectStatus
       ELSE
          /\ projectStatus' = [projectStatus EXCEPT ![p] = "ARCHIVED"]
          /\ last' = Response("deleteProject", p, MissingStep, NoPatch, "ok",
                              {}, <<>>, NoProgress)

\* projectService.changeProjectStatus: project.update without a lookup
ChangeProjectStatus(p, status) ==
    /\ UNCHANGED <<projectWorkflow, now, nUpdates, requests>>
    /\ IF p \notin ProjectIds THEN
          /\ last' = Response("changeProjectStatus", p, MissingStep, NoPatch,
                              "P2025", {}, <<>>, NoProgress)
          /\ UNCHANGED projectStatus
       ELSE
          /\ projectStatus' = [projectStatus EXCEPT ![p] = status]
          /\ last' = Response("changeProjectStatus", p, MissingStep, NoPatch, "ok",
                              {}, <<>>, NoProgress)

\* projectService.updateProject with input = {status}
UpdateProject(p, status) ==
    /\ UNCHANGED <<projectWorkflow, now, nUpdates, requests>>
    /\ IF p \notin ProjectIds THEN
          /\ last' = Response("updateProject", p, MissingStep, NoPatch, "NotFound",
                              {}, <<>>, NoProgress)
          /\ UNCHANGED projectStatus
       ELSE
          /\ projectStatus' = [projectStatus EXCEPT ![p] = status]
          /\ last' = Response("updateProject", p, MissingStep, NoPatch, "ok",
                              {}, <<>>, NoProgress)

\* the workflow operations and the project operations on one project
NextArchive ==
    \/ \E p \in {SharedProject, MissingProject} : GetProjectWorkflow(p)
          /\ UNCHANGED taskVars
    \/ \E stepId \in 1..Len(projectWorkflow) :
          \E data \in StatusPatches : UpdateWorkflowStep(stepId, data)
          /\ UNCHANGED taskVars
    \/ GetWorkflowProgress(SharedProject)
          /\ UNCHANGED taskVars
    \/ \E p \in {SharedProject, MissingProject} : DeleteProject(p)
          /\ UNCHANGED taskVars
    \/ \E p \in {SharedProject, MissingProject} :
          \E status \in ManualStatuses : ChangeProjectStatus(p, status)
          /\ UNCHANGED taskVars
    \/ \E p \in {SharedProject, MissingProject} :
          \E status \in ManualStatuses : UpdateProject(p, status)
          /\ UNCHANGED taskVars

SpecArchive == Init /\ [][NextArchive]_vars

\* ------------------------------------------------ bodies as the router gets them
\* req.body reaches updateWorkflowStep as it was sent: besides fields of the
\* declared type it can carry any column of project_workflow
RawBodies ==
    {[NoPatch EXCEPT !.stepSequence = {n}] : n \in {1, 9}}
    \cup {[NoPatch EXCEPT !.stepName = {"Renamed"}],
          [NoPatch EXCEPT !.completionDate = {Null}],
          [NoPatch EXCEPT !.notes = {"n1"}],
          [NoPatch EXCEPT !.status = {"completed"}]}

NextHttp ==
    \/ \E p \in ProjectIds : GetProjectWorkflow(p)
          /\ UNCHANGED taskVars
    \/ \E stepId \in 1..Len(projectWorkflow) :
          \E body \in RawBodies : UpdateWorkflowStep(stepId, body)
          /\ UNCHANGED taskVars
    \/ \E p \in ProjectIds : GetWorkflowProgress(p)
          /\ UNCHANGED taskVars
    \/ Tick
          /\ UNCHANGED taskVars

SpecHttp == Init /\ [][NextHttp]_vars

\* ------------------------------------------------- createProjectWorkflow
\* foreign key project_workflow.project_id -> projects.id
ProjectKeyOk(rows) == \A k \in 1..Len(rows) : rows[k].projectId \in ProjectIds

\* workflowService.createProjectWorkflow(projectId, deliverableType), the
\* service's other way to create the steps of a project
CreateProjectWorkflow(p, deliverableType) ==
    LET templates == FindTemplates(deliverableType)
        rows == NewSteps(projectWorkflow, p, templates)
        respond(outcome) ==
            Response("createProjectWorkflow", p, MissingStep, NoPatch, outcome,
                     {}, <<>>, NoProgress)
    IN
    /\ UNCHANGED <<projectStatus, now, nUpdates, requests>>
    /\ IF Len(templates) = 0 THEN
          \* console.warn, then return
          /\ last' = respond("ok")
          /\ UNCHANGED projectWorkflow
       ELSE IF ~ProjectKeyOk(rows) THEN
          /\ last' = respond("P2003")
          /\ UNCHANGED projectWorkflow
       ELSE IF ~UniqueOk(projectWorkflow, rows) THEN
          /\ last' = respond("P2002")
          /\ UNCHANGED projectWorkflow
       ELSE
          /\ projectWorkflow' = projectWorkflow \o rows
          /\ last' = respond("ok")

\* the deliverable type a caller passes for project p
CallerType(p) == IF p \in ProjectIds THEN DeliverableTypeOf(p) ELSE "LOCAL_FILE"

\* the two methods that instantiate a workflow, step completion and the
\* read of the progress, called one at a time
NextService ==
    \/ \E p \in ProjectIds \cup {MissingProject} :
          CreateProjectWorkflow(p, CallerType(p))
          /\ UNCHANGED taskVars
    \/ \E p \in ProjectIds \cup {MissingProject} : GetProjectWorkflow(p)
          /\ UNCHANGED taskVars
    \/ \E stepId \in 1..Len(projectWorkflow) :
          UpdateWorkflowStep(stepId, [NoPatch EXCEPT !.status = {"completed"}])
          /\ UNCHANGED taskVars
    \/ \E p \in ProjectIds : GetWorkflowProgress(p)
          /\ UNCHANGED taskVars
    \/ Tick
          /\ UNCHANGED taskVars

SpecService == Init /\ [][NextService]_vars

\* --------------------------------------------------- concurrent requests
\* errorHandler: the HTTP status a handler's outcome is answered with
HttpStatus(outcome) ==
    CASE outcome = "ok" -> 200
      [] outcome = "NotFound" -> 404
      [] outcome = "ValidationError" -> 400
      [] outcome = "P2002" -> 400
      [] outcome = "P2003" -> 400
      [] outcome = "P2025" -> 404
      [] OTHER -> 500

Finish(r, outcome, ret) ==
    requests' = [requests EXCEPT ![r].pc = "done", ![r].outcome = outcome,
                                 ![r].ret = ret]
Goto(r, pc) == requests' = [requests EXCEPT ![r].pc = pc]

\* a GET /projects/:id/workflow request arrives
StartGetProjectWorkflow(r, p) ==
    /\ requests[r].pc = "idle"
    /\ requests' = [requests EXCEPT ![r].pc = "findProject", ![r].projectId = p]
    /\ UNCHANGED <<projectStatus, projectWorkflow, now, nUpdates, last>>

\* await prisma.project.findUnique
FindProject(r) ==
    /\ requests[r].pc = "findProject"
    /\ IF requests[r].projectId \in ProjectIds
       THEN Goto(r, "findWorkflow")
       ELSE Finish(r, "NotFound", <<>>)
    /\ UNCHANGED <<projectStatus, projectWorkflow, now, nUpdates, last>>

\* await prisma.projectWorkflow.findMany, the first read
FindWorkflowRows(r) ==
    /\ requests[r].pc = "findWorkflow"
    /\ IF ~NoWorkflowYet(projectWorkflow, requests[r].projectId)
       THEN Finish(r, "ok", FindWorkflow(projectWorkflow, requests[r].projectId))
       ELSE Goto(r, "findTemplates")
    /\ UNCHANGED <<projectStatus, projectWorkflow, now, nUpdates, last>>

\* await prisma.workflowTemplate.findMany
FindTemplateRows(r) ==
    /\ requests[r].pc = "findTemplates"
    /\ IF Len(FindTemplates(DeliverableTypeOf(requests[r].projectId))) = 0
       THEN Finish(r, "NotFound", <<>>)
       ELSE Goto(r, "createMany")
    /\ UNCHANGED <<projectStatus, projectWorkflow, now, nUpdates, last>>

\* await prisma.projectWorkflow.createMany: one INSERT, all rows or none
CreateMany(r) ==
    LET p == requests[r].projectId
        rows == NewSteps(projectWorkflow, p, FindTemplates(DeliverableTypeOf(p)))
    IN
    /\ requests[r].pc = "createMany"
    /\ IF UniqueOk(projectWorkflow, rows)
       THEN /\ projectWorkflow' = projectWorkflow \o rows
            /\ Goto(r, "refetch")
       ELSE /\ Finish(r, "P2002", <<>>)
            /\ UNCHANGED projectWorkflow
    /\ UNCHANGED <<projectStatus, now, nUpdates, last>>

\* await prisma.projectWorkflow.findMany, the second read
Refetch(r) ==
    /\ requests[r].pc = "refetch"
    /\ Finish(r, "ok", FindWorkflow(projectWorkflow, requests[r].projectId))
    /\ UNCHANGED <<projectStatus, projectWorkflow, now, nUpdates, last>>

NextConc ==
    \/ \E r \in Requests : \E p \in ProjectIds \cup {MissingProject} :
          StartGetProjectWorkflow(r, p)
          /\ UNCHANGED taskVars
    \/ \E r \in Requests : FindProject(r)
          /\ UNCHANGED taskVars
    \/ \E r \in Requests : FindWorkflowRows(r)
          /\ UNCHANGED taskVars
    \/ \E r \in Requests : FindTemplateRows(r)
          /\ UNCHANGED taskVars
    \/ \E r \in Requests : CreateMany(r)
          /\ UNCHANGED taskVars
    \/ \E r \in Requests : Refetch(r)
          /\ UNCHANGED taskVars

SpecConc == Init /\ [][NextConc]_vars

\* ------------------------------------------- concurrent updateWorkflowStep
\* the bodies sent concurrently: a completion and a status correction
ConcPatches ==
    {[NoPatch EXCEPT !.status = {"completed"}],
     [NoPatch EXCEPT !.status = {"blocked"}]}

\* the row a request writes: data is merged into the row as it is in the
\* table now, while !step.startDate is decided on the row the request read
\* at its start
WrittenStep(cur, step, data, day) ==
    IF data.status = {"completed"}
    THEN [ApplyData(cur, [data EXCEPT !.completionPercentage = {100}])
             EXCEPT !.completionDate = <<day>>]
    ELSE IF data.status = {"in_progress"} /\ step.startDate = Null
    THEN [ApplyData(cur, data) EXCEPT !.startDate = <<day>>]
    ELSE ApplyData(cur, data)

\* a PUT /projects/:id/workflow/:stepId request arrives
StartUpdateWorkflowStep(r, stepId, data) ==
    /\ requests[r].pc = "idle"
    /\ requests' = [requests EXCEPT ![r] =
          [pc |-> "findStep", projectId |-> MissingProject, outcome |-> "none",
           ret |-> <<>>, stepId |-> stepId, data |-> data, step |-> <<>>,
           names |-> {}, newStatus |-> "none"]]
    /\ UNCHANGED <<projectStatus, projectWorkflow, now, nUpdates, last>>

\* await prisma.projectWorkflow.findUnique in updateWorkflowStep
FindStep(r) ==
    LET stepId == requests[r].stepId IN
    /\ requests[r].pc = "findStep"
    /\ IF stepId \notin 1..Len(projectWorkflow)
       THEN Finish(r, "NotFound", <<>>)
       ELSE requests' = [requests EXCEPT
               ![r].step = <<projectWorkflow[stepId]>>,
               ![r].projectId = projectWorkflow[stepId].projectId,
               ![r].pc = IF requests[r].data.status = {"completed"}
                         THEN "validateFindStep" ELSE "writeStep"]
    /\ UNCHANGED <<projectStatus, projectWorkflow, now, nUpdates, last>>

\* await prisma.projectWorkflow.findUnique in validateStepCompletion
ValidateFindStep(r) ==
    /\ requests[r].pc = "validateFindStep"
    /\ IF requests[r].stepId \notin 1..Len(projectWorkflow)
       THEN Finish(r, "NotFound", <<>>)
       ELSE Goto(r, "validatePrevious")
    /\ UNCHANGED <<projectStatus, projectWorkflow, now, nUpdates, last>>

\* await prisma.projectWorkflow.findMany({stepSequence: {lt}}) and the test
ValidatePrevious(r) ==
    LET stepId == requests[r].stepId IN
    /\ requests[r].pc = "validatePrevious"
    /\ IF IncompleteSteps(projectWorkflow, stepId) # {}
       THEN requests' = [requests EXCEPT
               ![r].pc = "done", ![r].outcome = "ValidationError",
               ![r].names = IncompleteNames(projectWorkflow, stepId)]
       ELSE Goto(r, "writeStep")
    /\ UNCHANGED <<projectStatus, projectWorkflow, now, nUpdates, last>>

\* await prisma.projectWorkflow.update
WriteStep(r) ==
    LET stepId == requests[r].stepId
        row == WrittenStep(projectWorkflow[stepId], requests[r].step[1],
                           requests[r].data, now)
    IN
    /\ requests[r].pc = "writeStep"
    /\ projectWorkflow' = [projectWorkflow EXCEPT ![stepId] = row]
    /\ IF requests[r].data.status = {"completed"}
       THEN requests' = [requests EXCEPT ![r].pc = "projectorRead",
                                         ![r].ret = <<row>>]
       ELSE Finish(r, "ok", <<row>>)
    /\ UNCHANGED <<projectStatus, now, nUpdates, last>>

\* await prisma.projectWorkflow.findMany in updateProjectStatusIfNeeded, and
\* the status computed from it
ProjectorRead(r) ==
    /\ requests[r].pc = "projectorRead"
    /\ requests' = [requests EXCEPT
          ![r].pc = "projectorWrite",
          ![r].newStatus = ProjectedStatus(projectWorkflow, requests[r].projectId)]
    /\ UNCHANGED <<projectStatus, projectWorkflow, now, nUpdates, last>>

\* await prisma.project.update in updateProjectStatusIfNeeded
ProjectorWrite(r) ==
    /\ requests[r].pc = "projectorWrite"
    /\ projectStatus' = [projectStatus EXCEPT
          ![requests[r].projectId] = requests[r].newStatus]
    /\ requests' = [requests EXCEPT ![r].pc = "done", ![r].outcome = "ok"]
    /\ UNCHANGED <<projectWorkflow, now, nUpdates, last>>

NextConcUpdate ==
    \/ GetProjectWorkflow(SharedProject)
          /\ UNCHANGED taskVars
    \/ \E stepId \in 1..Len(projectWorkflow) :
          UpdateWorkflowStep(stepId, [NoPatch EXCEPT !.status = {"completed"}])
          /\ UNCHANGED taskVars
    \/ \E r \in Requests : \E stepId \in 1..Len(projectWorkflow) :
          \E data \in ConcPatches : StartUpdateWorkflowStep(r, stepId, data)
          /\ UNCHANGED taskVars
    \/ \E r \in Requests : FindStep(r)
          /\ UNCHANGED taskVars
    \/ \E r \in Requests : ValidateFindStep(r)
          /\ UNCHANGED taskVars
    \/ \E r \in Requests : ValidatePrevious(r)
          /\ UNCHANGED taskVars
    \/ \E r \in Requests : WriteStep(r)
          /\ UNCHANGED taskVars
    \/ \E r \in Requests : ProjectorRead(r)
          /\ UNCHANGED taskVars
    \/ \E r \in Requests : ProjectorWrite(r)
          /\ UNCHANGED taskVars

SpecConcUpdate == Init /\ [][NextConcUpdate]_vars

\* ------------------------------------------------------------ TaskService
\* task ids in the order they are issued; an id no task ever had
TaskIds == 1..MaxTasks
MissingTask == 0

\* the users table, and an id no user has
Users == {"U1"}
MissingUser == "UX"

\* enum TaskStatus
TaskStatuses == {"todo", "in_progress", "review", "completed", "cancelled"}

\* the elements of an array of ids
Range(ids) == {ids[k] : k \in 1..Len(ids)}

\* the dependencies arrays a caller sends: up to two ids in ascending order,
\* repeated or not, of tasks that exist or not
DependencyLists ==
    LET ids == TaskIds \cup {MissingTask} IN
    {<<>>} \cup {<<a>> : a \in ids}
           \cup {<<pair[1], pair[2]>> :
                    pair \in {q \in ids \X ids : q[1] <= q[2]}}

\* CreateTaskInput / UpdateTaskInput: status and dependencies, each optional
NoTaskInput == [status |-> {}, dependencies |-> {}]
TaskInputs ==
    {[status |-> st, dependencies |-> deps] :
        st \in {{}, {"todo"}, {"completed"}},
        deps \in {{}} \cup {{l} : l \in DependencyLists}}

\* prisma.task.findUnique({where: {id}}): the rows with that id
FindTask(ts, taskId) == {t \in ts : t.id = taskId}

\* the row of a task that exists
TaskRow(ts, taskId) == CHOOSE t \in ts : t.id = taskId

\* prisma.task.findMany({where: {id: {in: ids}, projectId}})
FindTasksOfProject(ts, ids, p) ==
    {t \in ts : t.id \in Range(ids) /\ t.projectId = p}

\* prisma.task.findMany({where: {id: {in: ids}}})
FindTasksIn(ts, ids) == {t \in ts : t.id \in Range(ids)}

\* the dependencies check of createTask and updateTask: as many rows of the
\* project found as ids sent
DependenciesFound(ts, ids, p) ==
    Cardinality(FindTasksOfProject(ts, ids, p)) = Len(ids)

\* input.dependencies.includes(taskId)
DependsOnItself(ids, taskId) == taskId \in Range(ids)

\* prisma.task.findMany({where: {dependencies: {has: taskId}}})
DependentTasks_None(ts, taskId) == {}

DependentTasks(ts, taskId) == {t \in ts : taskId \in Range(t.dependencies)}

\* the dependencies of the task as read at the start of updateTask that are
\* not completed
IncompleteDependencies(ts, existingTask) ==
    {t \in FindTasksIn(ts, existingTask.dependencies) : t.status # "completed"}

\* one activity_logs row
LogEntry(actionType, taskId) == [actionType |-> actionType, entityId |-> taskId]

\* what a TaskService call answered
TaskResponse(op, taskId, input, outcome, names) ==
    [op |-> op, taskId |-> taskId, input |-> input, outcome |-> outcome,
     names |-> names, day |-> now]

\* taskService.createTask(input, createdBy), the caller being the assignee
CreateTask(projectId, assignedTo, workflowStepId, input) ==
    LET id == taskSeq + 1
        deps == Opt(input.dependencies, <<>>)
        respond(taskId, outcome) ==
            TaskResponse("createTask", taskId, input, outcome, {})
    IN
    /\ taskSeq < MaxTasks
    /\ Len(activityLog) < MaxLog
    /\ UNCHANGED <<projectStatus, projectWorkflow, now, nUpdates, requests>>
    /\ IF \/ projectId \notin ProjectIds
          \/ assignedTo \notin Users
          \/ /\ workflowStepId # {}
             /\ \A w \in workflowStepId :
                   \/ w \notin 1..Len(projectWorkflow)
                   \/ projectWorkflow[w].projectId # projectId
          \/ /\ Len(deps) > 0
             /\ ~DependenciesFound(tasks, deps, projectId)
       THEN
          /\ last' = respond(MissingTask, "ValidationError")
          /\ UNCHANGED taskVars
       ELSE
          /\ tasks' = tasks \cup
                {[id |-> id, projectId |-> projectId,
                  workflowStepId |-> OptDate(workflowStepId, Null),
                  assignedTo |-> assignedTo,
                  status |-> Opt(input.status, "todo"),
                  dependencies |-> deps,
                  completedAt |-> Null]}
          /\ taskSeq' = id
          /\ activityLog' = Append(activityLog, LogEntry("created", id))
          /\ last' = respond(id, "ok")

\* taskService.updateTask(taskId, input, userId)
UpdateTask(taskId, input) ==
    LET respond(outcome, names) ==
            TaskResponse("updateTask", taskId, input, outcome, names)
    IN
    /\ Len(activityLog) + 2 <= MaxLog
    /\ UNCHANGED <<projectStatus, projectWorkflow, now, nUpdates, requests>>
    /\ UNCHANGED taskSeq
    /\ IF FindTask(tasks, taskId) = {} THEN
          /\ last' = respond("NotFound", {})
          /\ UNCHANGED <<tasks, activityLog>>
       ELSE
          LET existingTask == TaskRow(tasks, taskId)
              deps == Opt(input.dependencies, <<>>)
              incompleteDeps == IncompleteDependencies(tasks, existingTask)
              task == [existingTask EXCEPT
                          !.status = Opt(input.status, @),
                          !.dependencies = Opt(input.dependencies, @),
                          !.completedAt = IF input.status = {"completed"}
                                          THEN <<now>> ELSE @]
          IN
          IF /\ Len(deps) > 0
             /\ \/ DependsOnItself(deps, taskId)
                \/ ~DependenciesFound(tasks, deps, existingTask.projectId)
          THEN
             /\ last' = respond("ValidationError", {})
             /\ UNCHANGED <<tasks, activityLog>>
          ELSE IF input.status = {"completed"} /\ incompleteDeps # {} THEN
             /\ last' = respond("ValidationError",
                                {t.id : t \in incompleteDeps})
             /\ UNCHANGED <<tasks, activityLog>>
          ELSE
             /\ tasks' = (tasks \ {existingTask}) \cup {task}
             /\ activityLog' =
                   IF /\ input.status = {"completed"}
                      /\ existingTask.status # "completed"
                   THEN activityLog \o <<LogEntry("updated", taskId),
                                         LogEntry("task_completed", taskId)>>
                   ELSE Append(activityLog, LogEntry("updated", taskId))
             /\ last' = respond("ok", {})

\* taskService.deleteTask(taskId, userId)
DeleteTask(taskId) ==
    LET dependentTasks == DependentTasks(tasks, taskId)
        respond(outcome, names) ==
            TaskResponse("deleteTask", taskId, NoTaskInput, outcome, names)
    IN
    /\ Len(activityLog) < MaxLog
    /\ UNCHANGED <<projectStatus, projectWorkflow, now, nUpdates, requests>>
    /\ UNCHANGED taskSeq
    /\ IF FindTask(tasks, taskId) = {} THEN
          /\ last' = respond("NotFound", {})
          /\ UNCHANGED <<tasks, activityLog>>
       ELSE IF dependentTasks # {} THEN
          /\ last' = respond("ValidationError", {t.id : t \in dependentTasks})
          /\ UNCHANGED <<tasks, activityLog>>
       ELSE
          /\ tasks' = tasks \ FindTask(tasks, taskId)
          /\ activityLog' = Append(activityLog, LogEntry("deleted", taskId))
          /\ last' = respond("ok", {})

\* the projects tasks are created in
TaskProjects == {"P1", "P2", MissingProject}

NextTasks ==
    \/ \E projectId \in TaskProjects : \E assignedTo \in Users :
          \E input \in TaskInputs : CreateTask(projectId, assignedTo, {}, input)
    \/ \E assignedTo \in Users \cup {MissingUser} : \E workflowStepId \in {{}, {1}} :
          CreateTask(PlannedProject, assignedTo, workflowStepId, NoTaskInput)
    \/ \E taskId \in TaskIds \cup {MissingTask} : \E input \in TaskInputs :
          UpdateTask(taskId, input)
    \/ \E taskId \in TaskIds \cup {MissingTask} : DeleteTask(taskId)
    \/ GetProjectWorkflow(PlannedProject)
          /\ UNCHANGED taskVars

SpecTasks == Init /\ [][NextTasks]_vars

\* ================================================================ claims
\* the transition serves an updateWorkflowStep request for an existing step
\* whose body asks for status completed
CompletionRequest ==
    /\ nUpdates' # nUpdates
    /\ last'.op = "updateWorkflowStep"
    /\ last'.data.status = {"completed"}
    /\ last'.stepId \in 1..Len(projectWorkflow)

\* the steps of the same project with a strictly smaller stepSequence
LowerSteps(wf, stepId) ==
    {i \in 1..Len(wf) : /\ wf[i].projectId = wf[stepId].projectId
                        /\ wf[i].stepSequence < wf[stepId].stepSequence}

\* C1: served one at a time, a completion request succeeds only if every
\* lower-sequence step of the project was completed when it was made, and
\* it always succeeds for a step that has no lower-sequence step.
C1_CompletionOnlyAfterPrerequisites ==
    [][CompletionRequest =>
          /\ last'.outcome = "ok" =>
                \A i \in LowerSteps(projectWorkflow, last'.stepId) :
                    projectWorkflow[i].status = "completed"
          /\ LowerSteps(projectWorkflow, last'.stepId) = {} => last'.outcome = "ok"
      ]_vars

\* a step with a lower-sequence step has just been completed
C1_Witness ==
    /\ last.op = "updateWorkflowStep"
    /\ last.data.status = {"completed"}
    /\ last.outcome = "ok"
    /\ projectWorkflow[last.stepId].stepSequence > 1

\* C2: a completion request for a step with an unmet prerequisite fails with
\* ValidationError, its message names every lower-sequence step that is not
\* completed, and no step and no project status changes.
C2_UnmetPrerequisiteRejected ==
    [][(/\ CompletionRequest
        /\ \E i \in LowerSteps(projectWorkflow, last'.stepId) :
              projectWorkflow[i].status # "completed")
       => /\ last'.outcome = "ValidationError"
          /\ last'.names =
                {projectWorkflow[i].stepName :
                    i \in {j \in LowerSteps(projectWorkflow, last'.stepId) :
                              projectWorkflow[j].status # "completed"}}
          /\ projectWorkflow' = projectWorkflow
          /\ projectStatus' = projectStatus
      ]_vars

\* a completion was refused naming two unmet prerequisite steps
C2_Witness ==
    /\ last.op = "updateWorkflowStep"
    /\ last.outcome = "ValidationError"
    /\ Cardinality(last.names) = 2

\* C3: a successful completion leaves the step completed at 100 percent with
\* completionDate the current day, applies the other fields of the body, and
\* leaves the project status as the projector computes it from the steps.
C3_CompletionEffect ==
    [][(CompletionRequest /\ last'.outcome = "ok") =>
          LET row == projectWorkflow'[last'.stepId]
              old == projectWorkflow[last'.stepId]
              data == last'.data
          IN  /\ row.status = "completed"
              /\ row.completionPercentage = 100
              /\ row.completionDate = <<now>>
              /\ IF data.assignedTo = {} THEN row.assignedTo = old.assignedTo
                  ELSE data.assignedTo = {row.assignedTo}
              /\ IF data.notes = {} THEN row.notes = old.notes
                  ELSE data.notes = {row.notes}
              /\ IF data.dueDate = {} THEN row.dueDate = old.dueDate
                  ELSE row.dueDate # Null /\ data.dueDate = {row.dueDate[1]}
              /\ IF data.startDate = {} THEN row.startDate = old.startDate
                  ELSE row.startDate # Null /\ data.startDate = {row.startDate[1]}
              /\ row.stepSequence = old.stepSequence /\ row.stepName = old.stepName
              /\ row.projectId = old.projectId
              /\ last'.ret = <<row>>
              /\ projectStatus'[row.projectId]
                    = ProjectedStatus(projectWorkflow', row.projectId)
      ]_vars

\* a completion whose body carried completionPercentage 50 succeeded on a
\* day after the first
C3_Witness ==
    /\ last.op = "updateWorkflowStep"
    /\ last.data.status = {"completed"}
    /\ last.data.completionPercentage = {50}
    /\ last.outcome = "ok"
    /\ now = 1
    /\ projectWorkflow[last.stepId].completionDate = <<1>>

\* the rows of project p, as a set
RowsOf(wf, p) == {wf[i] : i \in {j \in 1..Len(wf) : wf[j].projectId = p}}

\* C4: completing the last step that is not completed makes the project
\* DELIVERED, and a getWorkflowProgress that follows reports percentComplete
\* 100 with completedSteps equal to totalSteps.
C4_LastStepDelivers ==
    [][/\ (/\ CompletionRequest
           /\ last'.outcome = "ok"
           /\ projectWorkflow[last'.stepId].status # "completed"
           /\ \A row \in RowsOf(projectWorkflow, last'.projectId) :
                 row.id # last'.stepId => row.status = "completed")
          => projectStatus'[last'.projectId] = "DELIVERED"
       /\ (/\ last'.op = "getWorkflowProgress"
           /\ projectStatus[last'.projectId] = "DELIVERED"
           /\ \A row \in RowsOf(projectWorkflow, last'.projectId) :
                 row.status = "completed")
          => /\ last'.outcome = "ok"
             /\ last'.progress.percentComplete = 100
             /\ last'.progress.completedSteps = last'.progress.totalSteps
             /\ last'.progress.totalSteps =
                   Cardinality(RowsOf(projectWorkflow, last'.projectId))
      ]_vars

\* the second of two steps was completed and the progress was then read
C4_Witness ==
    /\ last.op = "getWorkflowProgress"
    /\ last.outcome = "ok"
    /\ last.progress.totalSteps = 2
    /\ last.progress.percentComplete = 100
    /\ projectStatus[last.projectId] = "DELIVERED"
    /\ \E row \in RowsOf(projectWorkflow, last.projectId) : row.stepSequence = 2

\* sum of completionPercentage over the steps of p, and their number
RECURSIVE SumOver(_)
SumOver(rows) ==
    IF rows = {} THEN 0
    ELSE LET row == CHOOSE x \in rows : TRUE
         IN  row.completionPercentage + SumOver(rows \ {row})

\* the band the claim gives to avg = total / n; "none" where it names none
ClaimedBand(total, n) ==
    IF 0 < total /\ total < 25 * n THEN "ANALYSIS"
    ELSE IF 25 * n <= total /\ total < 50 * n THEN "DRAFTING"
    ELSE IF 50 * n <= total /\ total < 75 * n THEN "INTERNAL_REVIEW"
    ELSE IF 75 * n <= total /\ total < 100 * n THEN "FINALIZATION"
    ELSE IF total = 100 * n THEN "DELIVERED"
    ELSE "none"

\* C5 as stated: after each run of the projector the project status is the
\* band of the average completionPercentage, with avg = 100 giving DELIVERED.
C5_StatusIsBandOfAverage ==
    [][(CompletionRequest /\ last'.outcome = "ok") =>
          LET rows == RowsOf(projectWorkflow', last'.projectId)
              band == ClaimedBand(SumOver(rows), Cardinality(rows))
          IN  band # "none" => projectStatus'[last'.projectId] = band
      ]_vars

\* C5 amended: after each run of the projector the project status is
\* DELIVERED exactly when every step has status completed; otherwise it is
\* the band of the average: PLANNING for avg <= 0, ANALYSIS for 0 < avg < 25,
\* DRAFTING for 25 <= avg < 50, INTERNAL_REVIEW for 50 <= avg < 75 and
\* FINALIZATION for avg >= 75, avg = 100 included.
C5_StatusIsDeliveredOrBand ==
    [][(CompletionRequest /\ last'.outcome = "ok") =>
          LET rows == RowsOf(projectWorkflow', last'.projectId)
              total == SumOver(rows)
              n == Cardinality(rows)
              status == projectStatus'[last'.projectId]
          IN  IF \A row \in rows : row.status = "completed"
              THEN status = "DELIVERED"
              ELSE /\ total <= 0 => status = "PLANNING"
                   /\ (0 < total /\ total < 25 * n) => status = "ANALYSIS"
                   /\ (25 * n <= total /\ total < 50 * n) => status = "DRAFTING"
                   /\ (50 * n <= total /\ total < 75 * n) => status = "INTERNAL_REVIEW"
                   /\ 75 * n <= total => status = "FINALIZATION"
      ]_vars

\* a completion left the average exactly on the boundary 25
C5_Witness ==
    /\ last.op = "updateWorkflowStep"
    /\ last.data.status = {"completed"}
    /\ last.outcome = "ok"
    /\ projectStatus[last.projectId] = "DRAFTING"
    /\ SumOver(RowsOf(projectWorkflow, last.projectId))
          = 25 * Cardinality(RowsOf(projectWorkflow, last.projectId))

\* some step of p has been completed successfully (only a successful
\* completion writes completionDate)
HasCompleted(p) ==
    \E row \in RowsOf(projectWorkflow, p) : row.completionDate # Null

\* C6 as stated: once a step has been completed, the project status equals
\* what the projector computes from the current steps, in every state.
C6_StatusAlwaysDerived ==
    \A p \in ProjectIds :
        HasCompleted(p) => projectStatus[p] = ProjectedStatus(projectWorkflow, p)

\* C6 amended: the project status is what the projector computed from the
\* steps as they were right after the last successful completion: each
\* successful completion sets it to the projection of the steps, and no
\* other workflow operation changes it.
C6_StatusDerivedAtCompletion ==
    [][\A p \in ProjectIds :
          IF CompletionRequest /\ last'.outcome = "ok" /\ last'.projectId = p
          THEN projectStatus'[p] = ProjectedStatus(projectWorkflow', p)
          ELSE projectStatus'[p] = projectStatus[p]
      ]_vars

\* after a completion a plain update changed a percentage and left the
\* status behind the projection
C6_Witness ==
    /\ last.op = "updateWorkflowStep"
    /\ last.data.status = {}
    /\ last.outcome = "ok"
    /\ HasCompleted(last.projectId)
    /\ projectStatus[last.projectId] # ProjectedStatus(projectWorkflow, last.projectId)

\* C7: getProjectWorkflow on a project that has steps creates no step,
\* changes no field of any step and returns the project's steps in
\* ascending stepSequence order.
C7_EnsureWorkflowIdempotent ==
    [][(/\ last'.op = "getProjectWorkflow"
        /\ RowsOf(projectWorkflow, last'.projectId) # {})
       => /\ projectWorkflow' = projectWorkflow
          /\ last'.outcome = "ok"
          /\ {last'.ret[k] : k \in 1..Len(last'.ret)}
                = RowsOf(projectWorkflow, last'.projectId)
          /\ Len(last'.ret) = Cardinality(RowsOf(projectWorkflow, last'.projectId))
          /\ \A k \in 1..(Len(last'.ret) - 1) :
                last'.ret[k].stepSequence < last'.ret[k + 1].stepSequence
      ]_vars

\* the workflow was read again after one of its steps had been updated
C7_Witness ==
    /\ last.op = "getProjectWorkflow"
    /\ last.outcome = "ok"
    /\ Len(last.ret) = 3
    /\ \E k \in 1..Len(last.ret) :
          last.ret[k].status = "in_progress" /\ last.ret[k].startDate # Null

\* C10: for a project without steps, getProjectWorkflow creates one step per
\* template of the deliverable type, with the template's sequence and name,
\* not_started, 0 percent, no assignee and no dates, and returns exactly
\* these steps in ascending stepSequence order.
C10_InstantiationFromTemplates ==
    [][(/\ last'.op = "getProjectWorkflow"
        /\ last' # last
        /\ last'.projectId \in ProjectIds
        /\ RowsOf(projectWorkflow, last'.projectId) = {}
        /\ TemplateNames(DeliverableTypeOf(last'.projectId)) # <<>>)
       => LET names == TemplateNames(DeliverableTypeOf(last'.projectId))
              ret == last'.ret
          IN  /\ last'.outcome = "ok"
              /\ Len(ret) = Len(names)
              /\ \A k \in 1..Len(ret) :
                    /\ ret[k].projectId = last'.projectId
                    /\ ret[k].stepSequence = k
                    /\ ret[k].stepName = names[k]
                    /\ ret[k].status = "not_started"
                    /\ ret[k].completionPercentage = 0
                    /\ ret[k].assignedTo = NoUser
                    /\ ret[k].startDate = Null
                    /\ ret[k].dueDate = Null
                    /\ ret[k].completionDate = Null
              /\ RowsOf(projectWorkflow', last'.projectId)
                    = {ret[k] : k \in 1..Len(ret)}
              /\ Len(projectWorkflow') = Len(projectWorkflow) + Len(names)
              /\ \A i \in 1..Len(projectWorkflow) :
                    projectWorkflow'[i] = projectWorkflow[i]
      ]_vars

\* the three LOCAL_FILE steps have just been created
C10_Witness ==
    /\ last.op = "getProjectWorkflow"
    /\ last.outcome = "ok"
    /\ nUpdates = 0
    /\ Len(last.ret) = 3
    /\ last.ret[3].stepName = "Functional Analysis"

\* C8: whatever the interleaving of concurrent first-access requests, a
\* project never has two step instances with the same stepSequence, and the
\* steps it has are one per template.
C8_NoDuplicateSteps ==
    /\ \A i, j \in 1..Len(projectWorkflow) :
          (/\ projectWorkflow[i].projectId = projectWorkflow[j].projectId
           /\ projectWorkflow[i].stepSequence = projectWorkflow[j].stepSequence)
          => i = j
    /\ \A p \in ProjectIds :
          Cardinality(RowsOf(projectWorkflow, p))
             \in {0, Len(TemplateNames(DeliverableTypeOf(p)))}

\* two requests for the same project both read "no steps yet"; one has
\* inserted and the other's insert was refused
C8_Witness ==
    \E r1, r2 \in Requests :
        /\ r1 # r2
        /\ requests[r1].projectId = requests[r2].projectId
        /\ requests[r1].pc \in {"refetch", "done"}
        /\ requests[r1].outcome \in {"none", "ok"}
        /\ requests[r2].outcome = "P2002"
        /\ RowsOf(projectWorkflow, requests[r1].projectId) # {}

\* C9: every getProjectWorkflow request for an existing project whose
\* deliverable type has templates is answered with the project's full
\* ordered step list and never with an error, concurrent first accesses
\* included.
C9_NeverAnError ==
    \A r \in Requests :
        (/\ requests[r].pc = "done"
         /\ requests[r].projectId \in ProjectIds
         /\ TemplateNames(DeliverableTypeOf(requests[r].projectId)) # <<>>)
        => /\ HttpStatus(requests[r].outcome) = 200
           /\ Len(requests[r].ret)
                 = Len(TemplateNames(DeliverableTypeOf(requests[r].projectId)))
           /\ \A k \in 1..Len(requests[r].ret) : requests[r].ret[k].stepSequence = k

\* C11: instantiating the workflow of a project that does not exist, or
\* whose deliverable type has no template, fails with NotFound and persists
\* no step, whichever of the service's two instantiation methods is used.
C11_InstantiationNotFound ==
    [][(/\ last'.op \in {"getProjectWorkflow", "createProjectWorkflow"}
        /\ last' # last
        /\ \/ last'.projectId \notin ProjectIds
           \/ TemplateNames(CallerType(last'.projectId)) = <<>>)
       => /\ last'.outcome = "NotFound"
          /\ projectWorkflow' = projectWorkflow
      ]_vars

\* an updateWorkflowStep request has just been served for an existing step
\* and was not rejected
StepUpdated ==
    /\ nUpdates' # nUpdates
    /\ last'.op = "updateWorkflowStep"
    /\ last'.outcome = "ok"

C13_NoDerivedEffect ==
    [][(StepUpdated /\ last'.data.status # {"completed"}) =>
          LET row == projectWorkflow'[last'.stepId]
              old == projectWorkflow[last'.stepId]
              data == last'.data
              stamps == data.status = {"in_progress"} /\ old.startDate = Null
          IN  /\ IF data.status = {} THEN row.status = old.status
                  ELSE data.status = {row.status}
              /\ IF data.assignedTo = {} THEN row.assignedTo = old.assignedTo
                  ELSE data.assignedTo = {row.assignedTo}
              /\ IF data.completionPercentage = {}
                  THEN row.completionPercentage = old.completionPercentage
                  ELSE data.completionPercentage = {row.completionPercentage}
              /\ IF data.notes = {} THEN row.notes = old.notes
                  ELSE data.notes = {row.notes}
              /\ IF data.dueDate = {} THEN row.dueDate = old.dueDate
                  ELSE row.dueDate # Null /\ data.dueDate = {row.dueDate[1]}
              /\ IF stamps THEN row.startDate = <<now>>
                  ELSE IF data.startDate = {} THEN row.startDate = old.startDate
                  ELSE row.startDate # Null /\ data.startDate = {row.startDate[1]}
              /\ row.completionDate = old.completionDate
              /\ row.stepSequence = old.stepSequence /\ row.stepName = old.stepName
              /\ row.projectId = old.projectId
              /\ projectStatus' = projectStatus
      ]_vars

\* a completed step had its completionPercentage lowered to 50 by a body
\* without status: it keeps its completionDate, and the project keeps a
\* status that is no longer the one the projector would compute
C13_Witness ==
    /\ last.op = "updateWorkflowStep"
    /\ last.outcome = "ok"
    /\ last.data.status = {}
    /\ last.data.completionPercentage = {50}
    /\ projectWorkflow[last.stepId].completionPercentage = 50
    /\ projectWorkflow[last.stepId].completionDate # Null
    /\ projectStatus[last.projectId] # ProjectedStatus(projectWorkflow, last.projectId)

\* C14: whatever its outcome, an updateWorkflowStep request adds and removes
\* no step, changes no step other than the one named by stepId, and changes
\* no project status other than the status of that step's project; a
\* rejected request changes nothing.
C14_NoCascade ==
    [][(nUpdates' # nUpdates) =>
          /\ last'.op = "updateWorkflowStep"
          /\ Len(projectWorkflow') = Len(projectWorkflow)
          /\ \A i \in 1..Len(projectWorkflow) :
                i # last'.stepId => projectWorkflow'[i] = projectWorkflow[i]
          /\ \A q \in ProjectIds :
                q # last'.projectId => projectStatus'[q] = projectStatus[q]
          /\ last'.outcome # "ok" =>
                /\ projectWorkflow' = projectWorkflow
                /\ projectStatus' = projectStatus
      ]_vars

\* a step of one project was completed while a sibling step carries a
\* completionPercentage of its own and another project has steps too: the
\* sibling and the other project are as they were
C14_Witness ==
    /\ last.op = "updateWorkflowStep"
    /\ last.outcome = "ok"
    /\ last.data.status = {"completed"}
    /\ projectStatus[last.projectId] # "NOT_STARTED"
    /\ \E i \in StepsOf(projectWorkflow, last.projectId) :
          /\ i # last.stepId
          /\ projectWorkflow[i].completionPercentage = 50
          /\ projectWorkflow[i].status = "not_started"
    /\ \E q \in ProjectIds \ {last.projectId} :
          /\ StepsOf(projectWorkflow, q) # {}
          /\ projectStatus[q] = "NOT_STARTED"

ProgressReturned ==
    /\ last'.op = "getWorkflowProgress"
    /\ last' # last
    /\ last'.outcome = "ok"

\* the steps of project p that have status s
WithStatus(p, s) == {i \in StepsOf(projectWorkflow, p) : projectWorkflow[i].status = s}

\* C16: the summary of a project with steps has totalSteps = the number of
\* its steps, one count per status that is the number of steps with that
\* status (so the four counts sum to totalSteps), and percentComplete =
\* 100 * completedSteps / totalSteps rounded to the nearest integer, halves
\* up; completionPercentage plays no part.
C16_CountsAndPercent ==
    [][ProgressReturned =>
          LET p == last'.projectId
              s == last'.progress
              t == Cardinality(StepsOf(projectWorkflow, p))
              c == Cardinality(WithStatus(p, "completed"))
          IN  /\ t > 0
              /\ s.totalSteps = t
              /\ s.completedSteps = c
              /\ s.inProgressSteps = Cardinality(WithStatus(p, "in_progress"))
              /\ s.notStartedSteps = Cardinality(WithStatus(p, "not_started"))
              /\ s.blockedSteps = Cardinality(WithStatus(p, "blocked"))
              /\ s.completedSteps + s.inProgressSteps + s.notStartedSteps
                    + s.blockedSteps = s.totalSteps
              /\ 2 * t * s.percentComplete <= 200 * c + t
              /\ 200 * c + t < 2 * t * (s.percentComplete + 1)
      ]_vars

\* one of three steps is completed and another one is blocked: the summary
\* says 33
C16_Witness ==
    /\ last.op = "getWorkflowProgress"
    /\ last.outcome = "ok"
    /\ last.progress.totalSteps = 3
    /\ last.progress.completedSteps = 1
    /\ last.progress.blockedSteps = 1
    /\ last.progress.notStartedSteps = 1
    /\ last.progress.percentComplete = 33

\* the in_progress steps of project p, and the first of them in sequence
InProgress(p) == WithStatus(p, "in_progress")
CurrentStep(p) ==
    projectWorkflow[CHOOSE i \in InProgress(p) :
        \A j \in InProgress(p) :
            projectWorkflow[i].stepSequence <= projectWorkflow[j].stepSequence]

\* max(0, due - start) in whole days, 0 when a date is missing
Planned(row) ==
    IF row.startDate = Null \/ row.dueDate = Null THEN 0
    ELSE IF row.dueDate[1] - row.startDate[1] < 0 THEN 0
    ELSE row.dueDate[1] - row.startDate[1]

\* the planned days of a set of rows, added up
RECURSIVE PlannedOver(_)
PlannedOver(rows) ==
    IF rows = {} THEN 0
    ELSE LET r == CHOOSE x \in rows : TRUE
         IN  Planned(r) + PlannedOver(rows \ {r})

\* C17: when the in_progress step (the first in sequence) has a start date
\* and a due date, the summary has isOnTrack = (days since start <= planned)
\* and estimatedCompletionDate = start + planned + the planned days of all
\* steps with a greater stepSequence, with planned = max(0, due - start) and
\* 0 for a later step without both dates.
C17_Estimate ==
    [][(/\ ProgressReturned
        /\ InProgress(last'.projectId) # {}
        /\ CurrentStep(last'.projectId).startDate # Null
        /\ CurrentStep(last'.projectId).dueDate # Null)
       => LET p == last'.projectId
              step == CurrentStep(p)
              later == {r \in RowsOf(projectWorkflow, p) :
                            r.stepSequence > step.stepSequence}
          IN  /\ last'.progress.isOnTrack
                    = (now - step.startDate[1] <= Planned(step))
              /\ last'.progress.estimatedCompletionDate
                    = <<step.startDate[1] + Planned(step) + PlannedOver(later)>>
      ]_vars

\* step 2 runs from day 0 to day 5, step 3 is planned from day 5 to day 8,
\* step 1 has no dates; read on day 3: on track, completion on day 8
C17_Witness ==
    /\ last.op = "getWorkflowProgress"
    /\ last.outcome = "ok"
    /\ last.day = 3
    /\ \E i, j \in StepsOf(projectWorkflow, last.projectId) :
          /\ projectWorkflow[i].stepSequence = 2
          /\ projectWorkflow[i].status = "in_progress"
          /\ projectWorkflow[i].startDate = <<0>>
          /\ projectWorkflow[i].dueDate = <<5>>
          /\ projectWorkflow[j].stepSequence = 3
          /\ projectWorkflow[j].startDate = <<5>>
          /\ projectWorkflow[j].dueDate = <<8>>
    /\ last.progress.isOnTrack = TRUE
    /\ last.progress.estimatedCompletionDate = <<8>>

C19_StepsStayAsInstantiated ==
    \A p \in ProjectIds :
        LET steps == FindWorkflow(projectWorkflow, p)
            names == TemplateNames(DeliverableTypeOf(p))
        IN  \/ StepsOf(projectWorkflow, p) = {}
            \/ /\ Cardinality(StepsOf(projectWorkflow, p)) = Len(names)
               /\ Len(steps) = Len(names)
               /\ \A k \in 1..Len(steps) :
                     /\ steps[k].stepSequence = k
                     /\ steps[k].stepName = names[k]
                     /\ steps[k].projectId = p

\* C20: every step's completionPercentage is between 0 and 100 in every
\* reachable state (a body with a completionPercentage outside that range
\* being rejected).
C20_PercentageInRange ==
    \A i \in 1..Len(projectWorkflow) :
        projectWorkflow[i].completionPercentage \in 0..100

\* C21: for an existing step, an update whose status is not_started,
\* in_progress or blocked is never rejected, whatever the step's current
\* status and whatever the statuses of its siblings, and leaves the step
\* with the status of the body.
C21_UnguardedTransitions ==
    [][(/\ nUpdates' # nUpdates
        /\ last'.stepId \in 1..Len(projectWorkflow)
        /\ last'.data.status # {}
        /\ last'.data.status # {"completed"})
       => /\ last'.outcome = "ok"
          /\ last'.data.status = {projectWorkflow'[last'.stepId].status}
      ]_vars

\* a step that was completed has been set to blocked while a sibling is not
\* completed
C21_Witness ==
    /\ last.op = "updateWorkflowStep"
    /\ last.outcome = "ok"
    /\ last.data.status = {"blocked"}
    /\ projectWorkflow[last.stepId].status = "blocked"
    /\ projectWorkflow[last.stepId].completionDate # Null
    /\ \E i \in StepsOf(projectWorkflow, last.projectId) :
          i # last.stepId /\ projectWorkflow[i].status = "not_started"

\* C22: whatever the interleaving of concurrent updateWorkflowStep requests,
\* when a request writes its step as completed every step of the project
\* with a smaller stepSequence is completed at that moment.
C22_CompletionWriteAfterPrerequisites ==
    [][\A r \in Requests :
          (/\ requests[r].pc = "writeStep"
           /\ requests'[r].pc = "projectorRead")
          => IncompleteSteps(projectWorkflow, requests[r].stepId) = {}
      ]_vars

\* a completion request has finished
Completed(r) ==
    /\ requests[r].pc = "done"
    /\ requests[r].outcome = "ok"
    /\ requests[r].data.status = {"completed"}

\* C23: when only completion requests have run and none is in flight any
\* more, the status of their project is the projection of its steps as they
\* are now; with every step completed it is DELIVERED.
C23_StatusFollowsFinalSteps ==
    (/\ \A r \in Requests : Completed(r)
     /\ \A i \in StepsOf(projectWorkflow, SharedProject) :
           projectWorkflow[i].status = "completed")
    => projectStatus[SharedProject] = "DELIVERED"

\* C24 as stated: in every reachable state a project has at most one step
\* with status in_progress.
C24_SingleInProgress ==
    \A p \in ProjectIds : Cardinality(InProgress(p)) <= 1

\* C24 as amended: a project can have several in_progress steps; exactly one
\* of them has the smallest stepSequence, and that step is the one the
\* estimate of getWorkflowProgress rests on: the summary counts all of them,
\* has an estimate exactly when that step has a start date and a due date,
\* and the estimate starts from that step's start date.
C24_FirstInProgressDecides ==
    [][(ProgressReturned /\ InProgress(last'.projectId) # {}) =>
          LET p == last'.projectId
              lowest == {i \in InProgress(p) : \A j \in InProgress(p) :
                            projectWorkflow[i].stepSequence
                               <= projectWorkflow[j].stepSequence}
              step == CurrentStep(p)
              later == {r \in RowsOf(projectWorkflow, p) :
                            r.stepSequence > step.stepSequence}
              summary == last'.progress
          IN  /\ Cardinality(lowest) = 1
              /\ summary.inProgressSteps = Cardinality(InProgress(p))
              /\ (summary.estimatedCompletionDate # Null)
                    = (step.startDate # Null /\ step.dueDate # Null)
              /\ summary.estimatedCompletionDate # Null =>
                    summary.estimatedCompletionDate[1] - PlannedOver(later)
                       - Planned(step) = step.startDate[1]
      ]_vars

\* two steps of the project are in_progress, only the second of them has a
\* due date: the summary counts two and gives no estimate
C24_Witness ==
    /\ last.op = "getWorkflowProgress"
    /\ last.outcome = "ok"
    /\ last.progress.inProgressSteps = 2
    /\ CurrentStep(last.projectId).dueDate = Null
    /\ \E i \in InProgress(last.projectId) : projectWorkflow[i].dueDate # Null
    /\ last.progress.estimatedCompletionDate = Null

\* the completed steps of project p are a prefix of its sequence order in
\* table wf
CompletedIsPrefix(wf, p) ==
    \A i, j \in StepsOf(wf, p) :
        (wf[i].status = "completed" /\ wf[j].stepSequence < wf[i].stepSequence)
        => wf[j].status = "completed"

\* C25 as stated: in every state reached by sequential getProjectWorkflow
\* and updateWorkflowStep calls, the completed steps of a project are a
\* prefix of its sequence order.
C25_CompletedIsPrefix ==
    \A p \in ProjectIds : CompletedIsPrefix(projectWorkflow, p)

\* C25 as amended: a call keeps the completed steps a prefix unless it gives
\* a completed step another status.
C25_PrefixKeptUnlessCorrected ==
    [][\A p \in ProjectIds :
          (/\ CompletedIsPrefix(projectWorkflow, p)
           /\ \A i \in StepsOf(projectWorkflow, p) :
                 projectWorkflow[i].status = "completed"
                 => projectWorkflow'[i].status = "completed")
          => CompletedIsPrefix(projectWorkflow', p)
      ]_vars

\* three completions in sequence order: the third step was completed last
C25_Witness ==
    /\ last.op = "updateWorkflowStep"
    /\ last.outcome = "ok"
    /\ last.data.status = {"completed"}
    /\ projectWorkflow[last.stepId].stepSequence = 3
    /\ nUpdates >= 3
    /\ CompletedIsPrefix(projectWorkflow, last.projectId)

\* C26: in every reachable state, every step whose status is completed has
\* completionPercentage 100.
C26_CompletedMeansHundred ==
    \A i \in 1..Len(projectWorkflow) :
        projectWorkflow[i].status = "completed"
        => projectWorkflow[i].completionPercentage = 100

\* C27: in every state reached from instantiation through updateWorkflowStep
\* requests, every completed step has a completionDate and every in_progress
\* step has a startDate.
C27_DatesFollowStatus ==
    \A i \in 1..Len(projectWorkflow) :
        /\ projectWorkflow[i].status = "completed"
              => projectWorkflow[i].completionDate # Null
        /\ projectWorkflow[i].status = "in_progress"
              => projectWorkflow[i].startDate # Null

\* C28: once a project is ARCHIVED, only changeProjectStatus or
\* updateProject gives it another status; no workflow operation does.
C28_ArchivedStays ==
    [][\A p \in ProjectIds :
          (projectStatus[p] = "ARCHIVED" /\ projectStatus'[p] # "ARCHIVED")
          => last'.op \in {"changeProjectStatus", "updateProject"}
      ]_vars

\* the transition serves an updateTask call for a task that exists
TaskUpdated ==
    /\ last'.op = "updateTask"
    /\ FindTask(tasks, last'.taskId) # {}

\* every id in the dependencies of the row is the id of a completed task
DependenciesCompleted(ts, row) ==
    \A d \in Range(row.dependencies) :
       \E t \in ts : t.id = d /\ t.status = "completed"

\* C29: an updateTask call that succeeds leaves the task completed only if
\* every task in its dependencies, as stored after the update, is completed;
\* a call that fails changes neither the tasks nor the activity log.
C29_CompletedAfterDependencies ==
    [][TaskUpdated =>
          LET task == TaskRow(tasks', last'.taskId) IN
          \/ /\ last'.outcome = "ok"
             /\ task.status = "completed" => DependenciesCompleted(tasks', task)
          \/ /\ last'.outcome = "ValidationError"
             /\ UNCHANGED <<tasks, activityLog>>
      ]_vars

\* every id in a dependencies array is the id of another task of the same
\* project
DependenciesResolve(ts) ==
    \A t \in ts : \A d \in Range(t.dependencies) :
       /\ d # t.id
       /\ \E u \in ts : u.id = d /\ u.projectId = t.projectId

\* C30: after any sequence of createTask, updateTask and deleteTask calls every
\* id in a task's dependencies is the id of another existing task of the same
\* project, and deleteTask answers ValidationError and deletes nothing when
\* another task depends on the task.
C30_DependenciesResolve ==
    [][/\ DependenciesResolve(tasks')
       /\ (/\ last'.op = "deleteTask"
           /\ \E t \in tasks : last'.taskId \in Range(t.dependencies))
          => (last'.outcome = "ValidationError" /\ UNCHANGED tasks)
      ]_vars

\* a task depends on another one, and a deleteTask call for that other task
\* has just been refused
C30_Witness ==
    /\ last.op = "deleteTask"
    /\ last.outcome = "ValidationError"
    /\ \E t \in tasks : last.taskId \in Range(t.dependencies)

====
